---------------------------- MODULE Spec2Model ----------------------------
(***************************************************************************)
(* A model of the DouYin downloader (src/课外学习/抖音爬取/测试.py).        *)
(*                                                                         *)
(* Text is modelled as sequences of one-character strings, so that         *)
(* split, strip, re.sub and re.search are computed as Python computes      *)
(* them.  The remote platform and the operator are the environment: each   *)
(* HTTP attempt succeeds or fails nondeterministically, the operator may   *)
(* press Ctrl-C at any point of a run.                                     *)
(*                                                                         *)
(* Spec           the program as shipped: the body of get_video_by_url     *)
(*                after get_sec_uid (lines 183-215) is commented out.      *)
(* SpecUrls       one call of get_video_urls, the platform answering       *)
(*                with any page.                                           *)
(* SpecLedger     get_history and save_history under any order of          *)
(*                appends and restarts.                                    *)
(* SpecBody       the program with the body of get_video_by_url            *)
(*                (lines 183-215) run as it is written.                    *)
(***************************************************************************)
EXTENDS Naturals, Sequences, FiniteSets, TLC

VARIABLES
    \* ---- the files the program reads and writes
    configFile,             \* 配置.ini: [exists, ok, links, dir, bar]
    historyFile,            \* history.txt: [exists, data], data a character sequence
    files,                  \* the download tree: path -> [item, size]
    \* ---- the fields of the DouYin object (lines 29-34)
    shared_list,
    history,
    save_path,
    block_count,
    current_download_name,
    \* ---- control
    pc,                     \* where the process is
    run,                    \* how many times the program was started
    linkIdx,                \* position of `for url in self.shared_list`
    \* ---- the frame of get_request (lines 127-133)
    reqUrl,
    reqFor,                 \* the caller it returns to
    attempts,               \* attempts the retry decorator has made
    sent,                   \* the requests this invocation has issued
    response,
    \* ---- the frame of get_video_by_url (lines 176-215)
    sec_uid,
    max_cursor,
    has_more,
    total_count,
    nickname,
    video_list,
    num,                    \* position of `for num in range(page_count)`
    \* ---- the frame of get_video_urls (lines 74-104)
    i,
    result,
    u_max_cursor,
    u_has_more,
    \* ---- the frame of video_downloader (lines 107-125)
    size,
    \* ---- the environment
    world,                  \* which specification drives the program
    clock,                  \* int(time.time())
    \* ---- what the operator and the network saw
    prompts,                \* input() prompts shown
    netCalls,               \* HTTP calls issued in this run
    processed,              \* links whose get_video_by_url returned
    interrupted,            \* the KeyboardInterrupt handler ran
    error,                  \* the exception that ended the run, "" when none
    fileAtStart,            \* history.txt as the run found it
    asked,                  \* the catalog calls of the current get_video_urls
    received,               \* the non-empty page get_video_urls last parsed
    completed,              \* keys of the items video_downloader renamed
    finished,               \* final path -> content, of this run's downloads
    downloads,              \* downloads started in this run
    prevDone,               \* the previous run ended with run() returning
    streaming,              \* the download Ctrl-C came upon
    written                 \* keys save_history has written

fileVars == <<configFile, historyFile, files>>
objVars  == <<shared_list, history, save_path, block_count, current_download_name>>
reqVars  == <<reqUrl, reqFor, attempts, sent, response>>
byUrlVars == <<sec_uid, max_cursor, has_more, total_count, nickname, video_list, num>>
urlsVars == <<i, result, u_max_cursor, u_has_more>>
envVars  == <<world, clock>>
ghostVars == <<fileAtStart, asked, received, completed, finished, downloads,
               prevDone, streaming, written>>
obsVars  == <<prompts, netCalls, processed, interrupted, error, ghostVars>>
frameVars == <<byUrlVars, urlsVars, size>>
vars     == <<fileVars, objVars, pc, run, linkIdx, reqVars, frameVars, envVars, obsVars>>

-----------------------------------------------------------------------------
(* Bounds *)

MaxValueLen == 3        \* characters in the configured link list
MaxRuns == 2            \* program starts in one behaviour
MaxEmpty == 1           \* empty pages the platform answers one get_video_urls with
MaxCursor == 2          \* cursors of the platform's answers
MaxDescLen == 1         \* characters in a raw title
MaxKeyLen == 2          \* symbols in a ledger key
MaxAppends == 3         \* lines of history.txt

-----------------------------------------------------------------------------
(* Python's text operations *)

RECURSIVE IndexFrom(_, _, _)
\* the first position >= from of character c in s, 0 when there is none
IndexFrom(s, c, from) ==
    IF from > Len(s) THEN 0
    ELSE IF s[from] = c THEN from
    ELSE IndexFrom(s, c, from + 1)

RECURSIVE Split(_, _)
\* str.split(sep) for a one-character separator
Split(s, sep) ==
    LET k == IndexFrom(s, sep, 1)
    IN  IF k = 0 THEN <<s>>
        ELSE <<SubSeq(s, 1, k - 1)>> \o Split(SubSeq(s, k + 1, Len(s)), sep)

Whitespace == {" ", "\n", "\t", "\r"}

RECURSIVE LStrip(_)
LStrip(s) == IF s # <<>> /\ Head(s) \in Whitespace THEN LStrip(Tail(s)) ELSE s

RECURSIVE RStrip(_)
RStrip(s) ==
    IF s # <<>> /\ s[Len(s)] \in Whitespace
    THEN RStrip(SubSeq(s, 1, Len(s) - 1))
    ELSE s

\* str.strip()
Strip(s) == RStrip(LStrip(s))

RECURSIVE ReadLines(_)
\* file.readlines(): every line keeps its "\n"; a last line without one is a line
ReadLines(data) ==
    LET k == IndexFrom(data, "\n", 1)
    IN  IF data = <<>> THEN <<>>
        ELSE IF k = 0 THEN <<data>>
        ELSE <<SubSeq(data, 1, k)>> \o ReadLines(SubSeq(data, k + 1, Len(data)))

Digits == <<"0", "1", "2", "3", "4", "5", "6", "7", "8", "9">>

IsDigit(c) == \E d \in 1..10 : Digits[d] = c

DigitVal(c) == (CHOOSE d \in 1..10 : Digits[d] = c) - 1

\* whether int(s) parses
IsInt(s) == s # <<>> /\ \A k \in 1..Len(s) : IsDigit(s[k])

RECURSIVE IntOf(_)
IntOf(s) ==
    IF s = <<>> THEN 0
    ELSE 10 * IntOf(SubSeq(s, 1, Len(s) - 1)) + DigitVal(s[Len(s)])

RECURSIVE Join(_)
\* the characters of s as one string
Join(s) == IF s = <<>> THEN "" ELSE Head(s) \o Join(Tail(s))


RECURSIVE StrOfNat(_)
\* str(n)
StrOfNat(n) ==
    IF n < 10 THEN <<Digits[n + 1]>>
    ELSE Append(StrOfNat(n \div 10), Digits[(n % 10) + 1])

RECURSIVE RemoveAll(_, _)
\* s with every character of the set gone
RemoveAll(s, set) ==
    IF s = <<>> THEN <<>>
    ELSE IF Head(s) \in set THEN RemoveAll(Tail(s), set)
    ELSE <<Head(s)>> \o RemoveAll(Tail(s), set)

InSeq(x, s) == \E k \in 1..Len(s) : s[k] = x

-----------------------------------------------------------------------------
(* The environment: configuration files, the platform *)

LinkChars == {"u", "v", "w", ","}

RECURSIVE SeqsUpTo(_, _)
\* the sequences over S of length at most n
SeqsUpTo(S, n) ==
    IF n = 0 THEN {<<>>}
    ELSE LET shorter == SeqsUpTo(S, n - 1)
         IN  shorter \cup {Append(s, c) : s \in {t \in shorter : Len(t) = n - 1}, c \in S}

ConfigValues == SeqsUpTo(LinkChars, MaxValueLen)

\* 保存目录=./Download/ and 进度块个数=50 of ini_text (lines 13, 15)
IniDir == <<"D">>
IniBar == <<"5", "0">>
\* 用户主页列表 of ini_text (line 11): three shared links
IniLinks == <<"u", ",", "v", ",", "w">>

\* the defaults the constructor sets (lines 32, 33)
DefaultSavePath == <<"P">>
DefaultBlockCount == 50

IniConfig(v) == [exists |-> TRUE, ok |-> TRUE, links |-> v, dir |-> IniDir, bar |-> IniBar]

Configs ==
    {IniConfig(v) : v \in ConfigValues}
    \cup {[exists |-> TRUE, ok |-> TRUE, links |-> <<"u">>, dir |-> <<>>, bar |-> b] :
            b \in {<<>>, <<"x">>, <<"7">>}}
    \cup {[exists |-> FALSE, ok |-> FALSE, links |-> <<>>, dir |-> <<>>, bar |-> <<>>]}
    \cup {[exists |-> TRUE, ok |-> FALSE, links |-> <<"u">>, dir |-> IniDir, bar |-> IniBar]}

SecUidParam == <<"s", "e", "c", "_", "u", "i", "d", "=">>

\* the canonical profile URL a shared link redirects to: creator x, creator y,
\* an empty identifier, and (any other link) sec_uid as the last parameter
RedirectOf(link) ==
    IF link = <<"u">> THEN <<"?">> \o SecUidParam \o <<"x", "&", "t">>
    ELSE IF link = <<"v">> THEN <<"?", "t", "&">> \o SecUidParam \o <<"y", "&">>
    ELSE IF link = <<"z">> THEN <<"?">> \o SecUidParam \o <<"&", "t">>
    ELSE <<"?">> \o SecUidParam \o <<"x">>

\* the links requests can connect to; any other raises on every attempt
Reachable(req) == req.kind = "post" \/ req.target \in {<<"u">>, <<"v">>, <<"w">>, <<"z">>}

Item(d, n, v) ==
    [desc |-> d, nickname |-> n, url |-> [host |-> "aweme.snssdk.com", id |-> v]]

\* the published works of the two creators, page by page
CatalogOf(uid) ==
    IF uid = <<"x">>
    THEN << <<Item(<<"a">>, <<"n">>, 1), Item(<<"a", ".mp4">>, <<"n">>, 2)>>,
            <<Item(<<>>, <<"n">>, 3)>> >>
    ELSE IF uid = <<"y">>
    THEN << <<Item(<<"b">>, <<"m">>, 4), Item(<<"c">>, <<"m">>, 5)>> >>
    ELSE << >>

\* the catalog API's answer for a creator and a cursor
ApiPage(uid, cursor) ==
    LET cat == CatalogOf(uid)
    IN  IF cursor + 1 <= Len(cat)
        THEN [aweme_list |-> cat[cursor + 1], max_cursor |-> cursor + 1,
              has_more |-> IF cursor + 1 < Len(cat) THEN 1 ELSE 0]
        ELSE [aweme_list |-> <<>>, max_cursor |-> cursor, has_more |-> 0]

\* the empty page the platform answers now and then
EmptyAnswer == [aweme_list |-> <<>>, max_cursor |-> 0, has_more |-> 1]

NoBody == [aweme_list |-> <<>>, max_cursor |-> 0, has_more |-> 0]

\* the nine characters no file name may hold
Forbidden == {"/", "\\", ":", "*", "?", "\"", "<", ">", "|"}

DescChars == Forbidden \cup {"a"}

\* the pages any platform may answer get_video_urls with
ArbitraryAnswers ==
    {[aweme_list |-> l, max_cursor |-> c, has_more |-> h] :
        l \in {<<>>} \cup {<<Item(d, <<"n">>, 1)>> : d \in SeqsUpTo(DescChars, MaxDescLen)}
              \cup {<<Item(<<"a">>, n, 1), Item(<<"a", "/">>, <<"/", "n">>, 2)>> :
                        n \in {<<>>, <<"/">>, <<"n", "\\">>}},
        c \in 0..MaxCursor, h \in {0, 1}}

NoResponse == [status |-> 0, url |-> <<>>, body |-> NoBody]

NoPath == [root |-> <<>>, dir |-> <<>>, name |-> <<>>]

NoFiles == [p \in {} |-> [id |-> 0, size |-> 0]]

NoStream == [on |-> FALSE, path |-> NoPath, key |-> <<>>]

-----------------------------------------------------------------------------
(* The History Ledger *)

\* a file opened in mode 'a+' is positioned at its end
OpenAppendPlus(file) == Len(file.data)

\* f.seek(0)
Seek0(pos) == 0

\* get_history (lines 148-156): open 'a+', seek(0), strip every line read
get_history(file) ==
    LET pos == Seek0(OpenAppendPlus(file))
        lines == ReadLines(SubSeq(file.data, pos + 1, Len(file.data)))
    IN  [k \in 1..Len(lines) |-> Strip(lines[k])]

save_history_no_newline(file, title) ==
    [exists |-> TRUE, data |-> file.data \o Strip(title)]

\* save_history (lines 158-160): append title.strip() and a newline
save_history(file, title) ==
    [exists |-> TRUE, data |-> file.data \o Strip(title) \o <<"\n">>]

\* hashlib.md5(...).hexdigest(): one digest symbol for each text
md5(s) == <<Join(s)>>

\* lines 206-207: the ledger key of a title of a creator
HistoryKey(nick, title) == md5(nick \o <<"\\">> \o title)

-----------------------------------------------------------------------------
(* get_sec_uid's regular expression *)

\* whether s holds pattern p at position k
MatchesAt(s, p, k) ==
    /\ k + Len(p) - 1 <= Len(s)
    /\ SubSeq(s, k, k + Len(p) - 1) = p

\* re.search(r'sec_uid=.*?\&', url).group(0): the leftmost "sec_uid=", then the
\* fewest characters up to a "&"; <<>> stands for None
ReSearchSecUid(url) ==
    LET starts == {k \in 1..Len(url) :
                      /\ MatchesAt(url, SecUidParam, k)
                      /\ IndexFrom(url, "&", k + Len(SecUidParam)) # 0}
    IN  IF starts = {} THEN <<>>
        ELSE LET k == CHOOSE m \in starts : \A n \in starts : m <= n
             IN  SubSeq(url, k, IndexFrom(url, "&", k + Len(SecUidParam)))

\* sec_uid[8:-1]
SecUidSlice(m) == SubSeq(m, 9, Len(m) - 1)

-----------------------------------------------------------------------------
(* get_video_urls: its pure parts *)

\* the character class of re.sub(r'[\/:*?"<>|]', '', ...) (lines 97, 101):
\* \/ is an escaped slash, so the class holds no backslash
ReClass == {"/", ":", "*", "?", "\"", "<", ">", "|"}

ReSub(s) == RemoveAll(s, ReClass)

\* bool(html['has_more'])
Bool(n) == n # 0

ParsePageAlways(html, cur) ==
    [max_cursor |-> html.max_cursor, has_more |-> Bool(html.has_more),
     result |-> html.aweme_list]

\* lines 88-91: a non-empty page sets cursor, has_more and result; an empty
\* one leaves the three as they are
ParsePage(html, cur) ==
    IF html.aweme_list # <<>>
    THEN [max_cursor |-> html.max_cursor, has_more |-> Bool(html.has_more),
          result |-> html.aweme_list]
    ELSE cur

\* lines 93-98: the nickname of the first item whose nickname is not emptied
\* by the substitution, as it is; <<>> stands for None
NicknameOf(items) ==
    LET good == {k \in 1..Len(items) : ReSub(items[k].nickname) # <<>>}
    IN  IF good = {} THEN <<>>
        ELSE items[CHOOSE k \in good : \A m \in good : k <= m].nickname

\* '无标题' + str(int(time.time()))
Placeholder(now) == <<"untitled">> \o StrOfNat(now)

\* line 101
DescOf(item, now) == IF item.desc # <<>> THEN ReSub(item.desc) ELSE Placeholder(now)

\* lines 94-103
VideoListOf(items, now) ==
    [k \in 1..Len(items) |-> [desc |-> DescOf(items[k], now), url |-> items[k].url]]

\* line 202: title.replace('@抖音小助手', '').strip(), the mention one token
TitleOf(desc) == Strip(RemoveAll(desc, {"@mention"}))

\* line 205 and line 125: the path written to and the path renamed to
VideoPath(root, nick, title) == [root |-> root, dir |-> nick, name |-> title]

FinalPath(path) == [path EXCEPT !.name = Append(path.name, ".mp4")]

\* remove (lines 70-72): delete the file named, if it exists
remove(fs, name) ==
    IF name \in DOMAIN fs
    THEN [p \in DOMAIN fs \ {name} |-> fs[p]]
    ELSE fs

\* open(name, 'wb'): the file is created, or truncated
OpenWb(fs, name, id) ==
    [p \in DOMAIN fs \cup {name} |-> IF p = name THEN [id |-> id, size |-> 0] ELSE fs[p]]

\* file.write(data) of one chunk
WriteChunk(fs, name) == [fs EXCEPT ![name].size = @ + 1]

\* os.rename(name, final)
Rename(fs, name, final) ==
    [p \in (DOMAIN fs \ {name}) \cup {final} |-> IF p = final THEN fs[name] ELSE fs[p]]

-----------------------------------------------------------------------------
(* The program: initial states *)

Running == {"read_config", "get_history", "confirm", "for_url", "get_request",
            "re_search", "while_has_more", "get_video_urls", "urls_parse",
            "urls_return", "page_begin", "for_num", "download", "stream",
            "append", "save"}

Stopped == {"halted", "exited", "done", "crashed"}

\* the attempts the retry decorator allows (lines 127, 135)
stop_max_attempt_number == 3

\* the chunks of every video's content
ChunkCount == 2

InitObject ==
    /\ shared_list = <<>>
    /\ history = <<>>
    /\ save_path = DefaultSavePath
    /\ block_count = DefaultBlockCount
    /\ current_download_name = NoPath

InitFrames ==
    /\ linkIdx = 1
    /\ reqUrl = [kind |-> "link", target |-> <<>>, cursor |-> 0]
    /\ reqFor = "none"
    /\ attempts = 0
    /\ sent = <<>>
    /\ response = NoResponse
    /\ sec_uid = <<>>
    /\ has_more = TRUE
    /\ total_count = 0
    /\ nickname = <<>>
    /\ video_list = <<>>
    /\ num = 0
    /\ i = 0
    /\ result = <<>>
    /\ u_has_more = FALSE
    /\ size = 0

InitObs ==
    /\ prompts = 0
    /\ netCalls = 0
    /\ processed = <<>>
    /\ interrupted = FALSE
    /\ error = ""
    /\ fileAtStart = historyFile
    /\ asked = <<>>
    /\ received = NoBody
    /\ completed = {}
    /\ finished = NoFiles
    /\ downloads = 0
    /\ prevDone = FALSE
    /\ streaming = NoStream
    /\ written = {}

InitialHistoryFiles ==
    {[exists |-> FALSE, data |-> <<>>],
     [exists |-> TRUE, data |-> <<"a", "\n">>]}

Init ==
    /\ configFile \in Configs
    /\ historyFile \in InitialHistoryFiles
    /\ files = NoFiles
    /\ InitObject
    /\ InitFrames
    /\ max_cursor = 0
    /\ u_max_cursor = 0
    /\ InitObs
    /\ world = "catalog"
    /\ clock = 1
    /\ pc = "read_config"
    /\ run = 1

-----------------------------------------------------------------------------
(* The program: run, read_config, get_request, get_sec_uid *)

NoLinksNever(value) == FALSE

\* line 45: `if not value`
NoLinks(value) == value = <<>>

\* read_config (lines 36-61).  exit(0) raises SystemExit inside the try block,
\* which the bare except catches: the operator is prompted a second time.
read_config ==
    /\ pc = "read_config"
    /\ LET cfg == IF configFile.exists THEN configFile
                  ELSE [exists |-> TRUE, ok |-> TRUE, links |-> IniLinks,
                        dir |-> IniDir, bar |-> IniBar]
       IN  /\ configFile' = cfg
           /\ IF ~cfg.ok
              THEN /\ prompts' = prompts + 1
                   /\ pc' = "halted"
                   /\ UNCHANGED <<shared_list, save_path, block_count>>
              ELSE IF NoLinks(cfg.links)
              THEN /\ prompts' = prompts + 2
                   /\ pc' = "halted"
                   /\ UNCHANGED <<shared_list, save_path, block_count>>
              ELSE /\ shared_list' = Split(cfg.links, ",")
                   /\ save_path' = IF cfg.dir # <<>> THEN cfg.dir ELSE save_path
                   /\ IF cfg.bar = <<>>
                      THEN /\ pc' = "get_history"
                           /\ UNCHANGED <<block_count, prompts>>
                      ELSE IF IsInt(cfg.bar)
                      THEN /\ block_count' = IntOf(cfg.bar)
                           /\ pc' = "get_history"
                           /\ UNCHANGED prompts
                      ELSE /\ prompts' = prompts + 1
                           /\ pc' = "halted"
                           /\ UNCHANGED block_count
    /\ UNCHANGED <<historyFile, files, history, current_download_name, run,
                   linkIdx, reqVars, frameVars, envVars,
                   netCalls, processed, interrupted, error, ghostVars>>

\* run, line 164: self.history = self.get_history()
run_get_history ==
    /\ pc = "get_history"
    /\ history' = get_history(historyFile)
    /\ historyFile' = [historyFile EXCEPT !.exists = TRUE]
    /\ pc' = "confirm"
    /\ UNCHANGED <<configFile, files, shared_list, save_path, block_count,
                   current_download_name, run, linkIdx, reqVars, frameVars,
                   envVars, obsVars>>

\* run, lines 167-170: the confirmation prompt
run_confirm(answer) ==
    /\ pc = "confirm"
    /\ IF answer \in {"Y", "y"}
       THEN /\ pc' = "for_url"
            /\ prompts' = prompts + 1
       ELSE /\ pc' = "exited"
            /\ prompts' = prompts + 2
    /\ UNCHANGED <<fileVars, objVars, run, linkIdx, reqVars, frameVars, envVars,
                   netCalls, processed, interrupted, error, ghostVars>>

\* a call of get_request(url): the decorator has made no attempt yet
CallGetRequest(req, caller) ==
    /\ reqUrl' = req
    /\ reqFor' = caller
    /\ attempts' = 0
    /\ sent' = <<>>
    /\ response' = NoResponse
    /\ pc' = "get_request"

\* run, lines 172-174, and get_video_by_url, lines 177-181, up to its call of
\* get_request
run_for_url ==
    /\ pc = "for_url"
    /\ IF linkIdx <= Len(shared_list)
       THEN /\ max_cursor' = 0
            /\ has_more' = TRUE
            /\ total_count' = 0
            /\ CallGetRequest([kind |-> "link", target |-> shared_list[linkIdx],
                               cursor |-> 0], "get_sec_uid")
       ELSE /\ pc' = "done"
            /\ UNCHANGED <<reqVars, max_cursor, has_more, total_count>>
    /\ UNCHANGED <<fileVars, objVars, run, linkIdx, sec_uid, nickname, video_list,
                   num, urlsVars, size, envVars, obsVars>>

MayRetryOnceMore(n) == n < stop_max_attempt_number + 1

\* whether the retry decorator makes another attempt after n failed ones
MayRetry(n) == n < stop_max_attempt_number

\* line 132: assert response.status_code == 200 (status 0: requests.get raised)
AttemptOk(status) == status = 200

Outcomes(req) == IF Reachable(req) THEN {0, 200, 404} ELSE {0}

\* the bodies the platform may answer a request with
Answers(req) ==
    IF req.kind = "link" THEN {NoBody}
    ELSE IF world = "arbitrary"
    THEN {a \in ArbitraryAnswers : a.aweme_list # <<>> \/ i <= MaxEmpty}
    ELSE {ApiPage(req.target, req.cursor)}
         \cup (IF i <= MaxEmpty THEN {EmptyAnswer} ELSE {})

\* get_request (lines 127-133): one attempt of the decorated function.
\* requests.get raises, or the assertion on the status fails, or the response
\* is returned; the third failure is raised to the caller, whom nobody catches.
get_request(status) ==
    /\ pc = "get_request"
    /\ status \in Outcomes(reqUrl)
    /\ attempts' = attempts + 1
    /\ sent' = Append(sent, [req |-> reqUrl, status |-> status])
    /\ netCalls' = netCalls + 1
    /\ IF AttemptOk(status)
       THEN /\ \E answer \in Answers(reqUrl) :
                 response' = [status |-> status,
                              url |-> IF reqUrl.kind = "link"
                                      THEN RedirectOf(reqUrl.target) ELSE <<>>,
                              body |-> answer]
            /\ pc' = IF reqFor = "get_sec_uid" THEN "re_search" ELSE "urls_parse"
            /\ error' = error
       ELSE /\ response' = NoResponse
            /\ IF MayRetry(attempts + 1)
               THEN pc' = "get_request" /\ error' = error
               ELSE pc' = "crashed" /\ error' = "request failed"
    /\ UNCHANGED <<fileVars, objVars, run, linkIdx, reqUrl, reqFor, frameVars,
                   envVars, prompts, processed, interrupted, ghostVars>>

\* get_sec_uid, lines 145-146, then get_video_by_url's print(sec_uid) and its
\* return to the loop of run: as shipped, get_video_by_url does nothing else
get_sec_uid_return ==
    /\ pc = "re_search"
    /\ LET m == ReSearchSecUid(response.url)
       IN  IF m = <<>>
           THEN /\ pc' = "crashed"
                /\ error' = "AttributeError"
                /\ UNCHANGED <<linkIdx, processed, sec_uid>>
           ELSE /\ sec_uid' = SecUidSlice(m)
                /\ pc' = "for_url"
                /\ linkIdx' = linkIdx + 1
                /\ processed' = Append(processed, shared_list[linkIdx])
                /\ error' = error
    /\ UNCHANGED <<fileVars, objVars, run, reqVars, max_cursor, has_more,
                   total_count, nickname, video_list, num, urlsVars, size,
                   envVars, prompts, netCalls, interrupted, ghostVars>>

\* the key of the item the download loop is at
CurrentTitle == TitleOf(video_list[num + 1].desc)

CurrentKey == HistoryKey(nickname, CurrentTitle)

\* __main__, lines 222-225: Ctrl-C anywhere in run(); the handler removes the
\* file named by current_download_name and exits
KeyboardInterrupt ==
    /\ pc \in Running
    /\ files' = remove(files, current_download_name)
    /\ interrupted' = TRUE
    /\ streaming' = IF pc = "stream"
                    THEN [on |-> TRUE, path |-> current_download_name, key |-> CurrentKey]
                    ELSE NoStream
    /\ prompts' = prompts + 1
    /\ pc' = "exited"
    /\ UNCHANGED <<configFile, historyFile, objVars, run, linkIdx, reqVars,
                   frameVars, envVars, netCalls, processed, error, fileAtStart,
                   asked, received, completed, finished, downloads, prevDone,
                   written>>

\* the operator starts the program again, later: a new DouYin object, the
\* same files
Restart ==
    /\ pc \in Stopped
    /\ run < MaxRuns
    /\ run' = run + 1
    /\ clock' = clock + 1
    /\ pc' = "read_config"
    /\ shared_list' = <<>>
    /\ history' = <<>>
    /\ save_path' = DefaultSavePath
    /\ block_count' = DefaultBlockCount
    /\ current_download_name' = NoPath
    /\ linkIdx' = 1
    /\ reqUrl' = [kind |-> "link", target |-> <<>>, cursor |-> 0]
    /\ reqFor' = "none"
    /\ attempts' = 0
    /\ sent' = <<>>
    /\ response' = NoResponse
    /\ sec_uid' = <<>>
    /\ max_cursor' = 0
    /\ has_more' = TRUE
    /\ total_count' = 0
    /\ nickname' = <<>>
    /\ video_list' = <<>>
    /\ num' = 0
    /\ i' = 0
    /\ result' = <<>>
    /\ u_max_cursor' = 0
    /\ u_has_more' = FALSE
    /\ size' = 0
    /\ prompts' = 0
    /\ netCalls' = 0
    /\ processed' = <<>>
    /\ interrupted' = FALSE
    /\ error' = ""
    /\ fileAtStart' = historyFile
    /\ asked' = <<>>
    /\ received' = NoBody
    /\ finished' = NoFiles
    /\ downloads' = 0
    /\ prevDone' = (pc = "done")
    /\ streaming' = NoStream
    /\ UNCHANGED <<fileVars, world, completed, written>>

Next ==
    \/ read_config
    \/ run_get_history
    \/ \E answer \in {"Y", "y", "n"} : run_confirm(answer)
    \/ run_for_url
    \/ \E status \in {0, 200, 404} : get_request(status)
    \/ get_sec_uid_return
    \/ KeyboardInterrupt
    \/ Restart

Spec == Init /\ [][Next]_vars

-----------------------------------------------------------------------------
(* get_video_urls (lines 74-104) *)

\* lines 80-86: the loop is entered while result == []; the page is asked
\* for with the cursor the function holds
urls_attempt ==
    /\ pc = "get_video_urls"
    /\ i' = i + 1
    /\ asked' = Append(asked, u_max_cursor)
    /\ CallGetRequest([kind |-> "post", target |-> sec_uid, cursor |-> u_max_cursor],
                      "get_video_urls")
    /\ UNCHANGED <<fileVars, objVars, run, linkIdx, byUrlVars, result, u_max_cursor,
                   u_has_more, size, envVars, prompts, netCalls, processed,
                   interrupted, error, fileAtStart, received, completed, finished,
                   downloads, prevDone, streaming, written>>

\* lines 87-91 and the loop's test
urls_parse ==
    /\ pc = "urls_parse"
    /\ LET cur == [max_cursor |-> u_max_cursor, has_more |-> u_has_more,
                   result |-> result]
           new == ParsePage(response.body, cur)
       IN  /\ u_max_cursor' = new.max_cursor
           /\ u_has_more' = new.has_more
           /\ result' = new.result
           /\ received' = IF response.body.aweme_list # <<>>
                          THEN response.body ELSE received
           /\ pc' = IF new.result = <<>> THEN "get_video_urls" ELSE "urls_return"
    /\ UNCHANGED <<fileVars, objVars, run, linkIdx, reqVars, byUrlVars, i, size,
                   envVars, prompts, netCalls, processed, interrupted, error,
                   fileAtStart, asked, completed, finished, downloads, prevDone,
                   streaming, written>>

\* lines 93-104, and the caller's assignment of the tuple returned (line 189)
UrlsReturn(to) ==
    /\ pc = "urls_return"
    /\ nickname' = NicknameOf(result)
    /\ video_list' = VideoListOf(result, clock)
    /\ max_cursor' = u_max_cursor
    /\ has_more' = u_has_more
    /\ pc' = to
    /\ UNCHANGED <<fileVars, objVars, run, linkIdx, reqVars, sec_uid, total_count,
                   num, urlsVars, size, envVars, obsVars>>

urls_return == UrlsReturn("returned")

InitUrls ==
    /\ configFile = IniConfig(<<"u">>)
    /\ historyFile = [exists |-> FALSE, data |-> <<>>]
    /\ files = NoFiles
    /\ InitObject
    /\ InitFrames
    /\ max_cursor \in 0..MaxCursor
    /\ u_max_cursor = max_cursor
    /\ InitObs
    /\ world = "arbitrary"
    /\ clock = 1
    /\ pc = "get_video_urls"
    /\ run = 1

NextUrls ==
    \/ urls_attempt
    \/ \E status \in {0, 200, 404} : get_request(status)
    \/ urls_parse
    \/ urls_return

\* one call get_video_urls(sec_uid, max_cursor) against any platform
SpecUrls == InitUrls /\ [][NextUrls]_vars

-----------------------------------------------------------------------------
(* The ledger on its own *)

LedgerKeys == SeqsUpTo({"a", "b"}, MaxKeyLen) \ {<<>>}

InitLedger ==
    /\ configFile = IniConfig(<<"u">>)
    /\ historyFile \in InitialHistoryFiles
    /\ files = NoFiles
    /\ shared_list = <<>>
    /\ history = get_history(historyFile)
    /\ save_path = DefaultSavePath
    /\ block_count = DefaultBlockCount
    /\ current_download_name = NoPath
    /\ InitFrames
    /\ max_cursor = 0
    /\ u_max_cursor = 0
    /\ InitObs
    /\ world = "catalog"
    /\ clock = 1
    /\ pc = "ledger"
    /\ run = 1

\* lines 212-213: self.history.append(md5); self.save_history(md5)
ledger_append(k) ==
    /\ pc = "ledger"
    /\ Len(ReadLines(historyFile.data)) < MaxAppends
    /\ history' = Append(history, k)
    /\ historyFile' = save_history(historyFile, k)
    /\ written' = written \cup {k}
    /\ UNCHANGED <<configFile, files, shared_list, save_path, block_count,
                   current_download_name, pc, run, linkIdx, reqVars, frameVars,
                   envVars, prompts, netCalls, processed, interrupted, error,
                   fileAtStart, asked, received, completed, finished, downloads,
                   prevDone, streaming>>

\* a new process: __init__ (line 31), then line 164
ledger_reload ==
    /\ pc = "ledger"
    /\ run < MaxRuns + 1
    /\ run' = run + 1
    /\ history' = get_history(historyFile)
    /\ historyFile' = [historyFile EXCEPT !.exists = TRUE]
    /\ fileAtStart' = historyFile
    /\ UNCHANGED <<configFile, files, shared_list, save_path, block_count,
                   current_download_name, pc, linkIdx, reqVars, frameVars,
                   envVars, prompts, netCalls, processed, interrupted, error,
                   asked, received, completed, finished, downloads, prevDone,
                   streaming, written>>

NextLedger ==
    \/ \E k \in LedgerKeys : ledger_append(k)
    \/ ledger_reload

SpecLedger == InitLedger /\ [][NextLedger]_vars

-----------------------------------------------------------------------------
(* get_video_by_url with its body (lines 183-215) run as it is written, and
   video_downloader (lines 107-125) *)

\* lines 181-188: get_sec_uid, then `if not sec_uid: return`
get_sec_uid_continue ==
    /\ pc = "re_search"
    /\ LET m == ReSearchSecUid(response.url)
       IN  IF m = <<>>
           THEN /\ pc' = "crashed"
                /\ error' = "AttributeError"
                /\ UNCHANGED <<linkIdx, processed, sec_uid>>
           ELSE /\ sec_uid' = SecUidSlice(m)
                /\ error' = error
                /\ IF SecUidSlice(m) = <<>>
                   THEN /\ pc' = "for_url"
                        /\ linkIdx' = linkIdx + 1
                        /\ processed' = Append(processed, shared_list[linkIdx])
                   ELSE /\ pc' = "while_has_more"
                        /\ UNCHANGED <<linkIdx, processed>>
    /\ UNCHANGED <<fileVars, objVars, run, reqVars, max_cursor, has_more,
                   total_count, nickname, video_list, num, urlsVars, size,
                   envVars, prompts, netCalls, interrupted, ghostVars>>

\* line 188: `while has_more`, then the call of get_video_urls (lines 77-79),
\* or the return to the loop of run
while_has_more ==
    /\ pc = "while_has_more"
    /\ IF has_more
       THEN /\ i' = 0
            /\ result' = <<>>
            /\ u_has_more' = FALSE
            /\ u_max_cursor' = max_cursor
            /\ asked' = <<>>
            /\ pc' = "get_video_urls"
            /\ UNCHANGED <<linkIdx, processed>>
       ELSE /\ pc' = "for_url"
            /\ linkIdx' = linkIdx + 1
            /\ processed' = Append(processed, shared_list[linkIdx])
            /\ UNCHANGED <<urlsVars, asked>>
    /\ UNCHANGED <<fileVars, objVars, run, reqVars, byUrlVars, size, envVars,
                   prompts, netCalls, interrupted, error, fileAtStart, received,
                   completed, finished, downloads, prevDone, streaming, written>>

\* line 189: the tuple get_video_urls returns is assigned
by_url_page == UrlsReturn("page_begin")

\* lines 190-198: os.path.join raises TypeError on a nickname of None
page_begin ==
    /\ pc = "page_begin"
    /\ IF nickname = <<>>
       THEN /\ pc' = "crashed"
            /\ error' = "TypeError"
            /\ UNCHANGED <<total_count, num>>
       ELSE /\ total_count' = total_count + Len(video_list)
            /\ num' = 0
            /\ pc' = "for_num"
            /\ error' = error
    /\ UNCHANGED <<fileVars, objVars, run, linkIdx, reqVars, sec_uid, max_cursor,
                   has_more, nickname, video_list, urlsVars, size, envVars,
                   prompts, netCalls, processed, interrupted, ghostVars>>

\* lines 200-211 and 214-215: the next item of the page is skipped when its
\* key is in self.history, and handed to video_downloader when it is not
for_num ==
    /\ pc = "for_num"
    /\ IF num < Len(video_list)
       THEN IF InSeq(CurrentKey, history)
            THEN /\ num' = num + 1
                 /\ UNCHANGED <<pc, size>>
            ELSE /\ size' = 0
                 /\ pc' = "download"
                 /\ num' = num
       ELSE /\ pc' = "while_has_more"
            /\ UNCHANGED <<num, size>>
    /\ UNCHANGED <<fileVars, objVars, run, linkIdx, reqVars, sec_uid, max_cursor,
                   has_more, total_count, nickname, video_list, urlsVars,
                   envVars, obsVars>>

CurrentPath == VideoPath(save_path, nickname, CurrentTitle)

\* line 109: video_url.replace('aweme.snssdk.com', 'api.amemv.com')
DownloadUrl(url) ==
    IF url.host = "aweme.snssdk.com" THEN [url EXCEPT !.host = "api.amemv.com"] ELSE url

\* video_downloader, lines 108-116.  requests.get raises; or the response has
\* no content-length; or its status is not 200 and the function returns; or
\* the file is opened for writing.
downloader_get(outcome) ==
    /\ pc = "download"
    /\ IF outcome = "raise"
       THEN /\ pc' = "crashed"
            /\ error' = "download failed"
            /\ UNCHANGED <<files, current_download_name, downloads>>
       ELSE IF outcome = "no content-length"
       THEN /\ pc' = "crashed"
            /\ error' = "KeyError"
            /\ UNCHANGED <<files, current_download_name, downloads>>
       ELSE IF outcome = "status"
       THEN /\ pc' = "append"
            /\ UNCHANGED <<files, current_download_name, downloads, error>>
       ELSE /\ current_download_name' = CurrentPath
            /\ IF CurrentTitle = <<>>
               THEN /\ pc' = "crashed"
                    /\ error' = "IsADirectoryError"
                    /\ UNCHANGED <<files, downloads>>
               ELSE /\ files' = OpenWb(files, CurrentPath,
                                       DownloadUrl(video_list[num + 1].url).id)
                    /\ downloads' = downloads + 1
                    /\ pc' = "stream"
                    /\ error' = error
    /\ UNCHANGED <<configFile, historyFile, shared_list, history, save_path,
                   block_count, run, linkIdx, reqVars, frameVars, envVars,
                   prompts, netCalls, processed, interrupted, fileAtStart,
                   asked, received, completed, finished, prevDone, streaming,
                   written>>

\* lines 117-124: one chunk is written, or the connection breaks
downloader_chunk(outcome) ==
    /\ pc = "stream"
    /\ size < ChunkCount
    /\ IF outcome = "data"
       THEN /\ files' = WriteChunk(files, current_download_name)
            /\ size' = size + 1
            /\ UNCHANGED <<pc, error>>
       ELSE /\ pc' = "crashed"
            /\ error' = "download failed"
            /\ UNCHANGED <<files, size>>
    /\ UNCHANGED <<configFile, historyFile, objVars, run, linkIdx, reqVars,
                   byUrlVars, urlsVars, envVars, prompts, netCalls, processed,
                   interrupted, ghostVars>>

\* line 125: os.rename; onto an existing file it replaces it (POSIX) or raises
\* FileExistsError (Windows)
downloader_rename(platform) ==
    /\ pc = "stream"
    /\ size = ChunkCount
    /\ LET final == FinalPath(current_download_name)
       IN  IF final \in DOMAIN files /\ platform = "nt"
           THEN /\ pc' = "crashed"
                /\ error' = "FileExistsError"
                /\ UNCHANGED <<files, completed, finished>>
           ELSE /\ files' = Rename(files, current_download_name, final)
                /\ completed' = completed \cup {CurrentKey}
                /\ finished' = [p \in DOMAIN finished \cup {final} |->
                                   IF p = final THEN files[current_download_name]
                                   ELSE finished[p]]
                /\ pc' = "append"
                /\ error' = error
    /\ UNCHANGED <<configFile, historyFile, objVars, run, linkIdx, reqVars,
                   frameVars, envVars, prompts, netCalls, processed, interrupted,
                   fileAtStart, asked, received, downloads, prevDone, streaming,
                   written>>

\* line 212: self.history.append(md5)
record_append ==
    /\ pc = "append"
    /\ history' = Append(history, CurrentKey)
    /\ pc' = "save"
    /\ UNCHANGED <<fileVars, shared_list, save_path, block_count,
                   current_download_name, run, linkIdx, reqVars, frameVars,
                   envVars, obsVars>>

\* lines 213-214: self.save_history(md5), and on to the next item
record_save ==
    /\ pc = "save"
    /\ historyFile' = save_history(historyFile, CurrentKey)
    /\ written' = written \cup {CurrentKey}
    /\ num' = num + 1
    /\ pc' = "for_num"
    /\ UNCHANGED <<configFile, files, objVars, run, linkIdx, reqVars, sec_uid,
                   max_cursor, has_more, total_count, nickname, video_list,
                   urlsVars, size, envVars, prompts, netCalls, processed,
                   interrupted, error, fileAtStart, asked, received, completed,
                   finished, downloads, prevDone, streaming>>

BodyConfigs ==
    {IniConfig(v) : v \in {<<"u">>, <<"v">>, <<"z", ",", "v">>}}

InitBody ==
    /\ configFile \in BodyConfigs
    /\ historyFile = [exists |-> FALSE, data |-> <<>>]
    /\ files = NoFiles
    /\ InitObject
    /\ InitFrames
    /\ max_cursor = 0
    /\ u_max_cursor = 0
    /\ InitObs
    /\ world = "catalog"
    /\ clock = 1
    /\ pc = "read_config"
    /\ run = 1

NextBody ==
    \/ read_config
    \/ run_get_history
    \/ \E answer \in {"Y", "y", "n"} : run_confirm(answer)
    \/ run_for_url
    \/ \E status \in {0, 200, 404} : get_request(status)
    \/ get_sec_uid_continue
    \/ while_has_more
    \/ urls_attempt
    \/ urls_parse
    \/ by_url_page
    \/ page_begin
    \/ for_num
    \/ \E outcome \in {"raise", "no content-length", "status", "ok"} :
          downloader_get(outcome)
    \/ \E outcome \in {"data", "raise"} : downloader_chunk(outcome)
    \/ \E platform \in {"posix", "nt"} : downloader_rename(platform)
    \/ record_append
    \/ record_save
    \/ KeyboardInterrupt
    \/ Restart

SpecBody == InitBody /\ [][NextBody]_vars

-----------------------------------------------------------------------------
(* Properties of the program as shipped (Spec) *)

\* the creator a processed link resolved to
CreatorOf(link) == SecUidSlice(ReSearchSecUid(RedirectOf(link)))

\* the ledger key and the final file of an item of a page, as get_video_urls
\* and get_video_by_url derive them
KeyOfItem(page, k) ==
    HistoryKey(NicknameOf(page.aweme_list), TitleOf(DescOf(page.aweme_list[k], clock)))

FileOfItem(page, k) ==
    FinalPath(VideoPath(save_path, NicknameOf(page.aweme_list),
                        TitleOf(DescOf(page.aweme_list[k], clock))))

Count(x, s) == Cardinality({k \in 1..Len(s) : s[k] = x})

\* a creator whose whole catalog is one page (has_more = false) of items none
\* of which the ledger held when the run began
LastPageAllNew(link) ==
    LET page == ApiPage(CreatorOf(link), 0)
    IN  /\ page.aweme_list # <<>>
        /\ page.has_more = 0
        /\ \A k \in 1..Len(page.aweme_list) :
              ~InSeq(KeyOfItem(page, k), get_history(fileAtStart))

\* C1: once a link whose catalog page came with has_more = false and only new
\* items has been processed (the pipeline is at the next link), every item of
\* the page is downloaded and the ledger holds exactly one entry for each.
C1_LastPageDownloadedAndRecorded ==
    \A n \in 1..Len(processed) :
        LastPageAllNew(processed[n]) =>
            LET page == ApiPage(CreatorOf(processed[n]), 0)
            IN  \A k \in 1..Len(page.aweme_list) :
                    /\ FileOfItem(page, k) \in DOMAIN files
                    /\ Count(KeyOfItem(page, k), history) = 1
                    /\ Count(KeyOfItem(page, k), get_history(historyFile)) = 1

\* the exceptions processing one link raises
LinkErrors == {"AttributeError", "request failed"}

\* C4: a link whose identifier cannot be extracted, or whose request failed
\* three times, does not end the run while later links are still to be
\* processed.
C4_FailedLinkDoesNotEndRun ==
    ~(pc = "crashed" /\ error \in LinkErrors /\ linkIdx < Len(shared_list))

\* C7: with an empty link list the run halts after prompting the operator:
\* no HTTP call is issued, no link is processed, history.txt is as the run
\* found it.
C7_EmptyLinkListHalts ==
    (configFile.exists /\ configFile.ok /\ configFile.links = <<>>) =>
        /\ netCalls = 0
        /\ processed = <<>>
        /\ shared_list = <<>>
        /\ historyFile = fileAtStart
        /\ pc \in {"read_config", "halted", "exited"}
        /\ (pc = "halted" => prompts >= 1)
        /\ (pc = "exited" => interrupted)

C7_HaltedOnEmptyList ==
    /\ pc = "halted"
    /\ configFile.ok
    /\ configFile.links = <<>>
    /\ prompts = 2

AllFailed(log) == \A k \in 1..Len(log) : log[k].status # 200

\* C9: one invocation of get_request issues at most 3 HTTP calls, all with the
\* same request; an attempt that raised or whose status is not 200 is followed
\* by another while fewer than 3 were made; the response of the first
\* successful attempt is returned and no attempt follows it; after 3 failed
\* attempts the exception is raised.
C9_BoundedRetry ==
    /\ Len(sent) = attempts
    /\ attempts <= 3
    /\ \A k \in 1..Len(sent) : sent[k].req = reqUrl
    /\ \A k \in 1..(Len(sent) - 1) : sent[k].status # 200
    /\ (response.status = 200) <=> (sent # <<>> /\ sent[Len(sent)].status = 200)
    /\ (pc = "get_request") => (attempts < 3 /\ AllFailed(sent))
    /\ (error = "request failed") <=> (attempts = 3 /\ AllFailed(sent))

C9_ThirdAttemptSucceeds ==
    /\ pc = "re_search"
    /\ attempts = 3
    /\ sent[1].status = 0
    /\ sent[2].status = 404
    /\ response.status = 200

-----------------------------------------------------------------------------
(* Properties of get_video_urls (SpecUrls) *)

\* C8: no title get_video_urls returns holds any of the nine characters
\* / \ : * ? " < > |
C8_TitlesHoldNoForbiddenCharacter ==
    pc = "returned" =>
        \A k \in 1..Len(video_list) :
            \A j \in 1..Len(video_list[k].desc) :
                video_list[k].desc[j] \notin Forbidden

\* C10: every catalog call of one get_video_urls carries the cursor it was
\* called with; until a non-empty page arrives its cursor and has_more are
\* as they were; it returns only upon a non-empty page, with one entry for
\* each item of that page and with that page's cursor and has_more.
C10_EmptyPagesLeaveCursor ==
    /\ \A k \in 1..Len(asked) : asked[k] = asked[1]
    /\ pc # "returned" => \A k \in 1..Len(asked) : asked[k] = max_cursor
    /\ result = <<>> => (u_max_cursor = max_cursor /\ u_has_more = FALSE)
    /\ pc \in {"urls_return", "returned"} =>
          /\ received.aweme_list # <<>>
          /\ received = response.body
          /\ result = received.aweme_list
    /\ pc = "returned" =>
          /\ video_list # <<>>
          /\ Len(video_list) = Len(received.aweme_list)
          /\ max_cursor = received.max_cursor
          /\ has_more = Bool(received.has_more)

C10_ReturnedAfterEmptyPage ==
    /\ pc = "returned"
    /\ asked = <<0, 0>>
    /\ max_cursor = 2
    /\ has_more = FALSE
    /\ Len(video_list) = 2

-----------------------------------------------------------------------------
(* Properties of the ledger (SpecLedger) *)

\* C6: a key save_history wrote is found in self.history for the rest of the
\* run and after every restart, and get_history returns it from history.txt
\* at any later time: no append and no restart removes it.
C6_AppendThenContains ==
    \A k \in written :
        /\ InSeq(k, history)
        /\ InSeq(k, get_history(historyFile))

C6_ReloadedAfterAppends ==
    /\ run = 2
    /\ Cardinality(written) = 2
    /\ fileAtStart = historyFile
    /\ history = get_history(historyFile)

-----------------------------------------------------------------------------
(* Properties of get_video_by_url's body as written (SpecBody) *)

=============================================================================
